---- MODULE Spec2Model ----
(***************************************************************************)
(* State-machine model of the agentic wallet core:                         *)
(*   - the Agent Registry & Spending Ledger (Orchestrator.ts),             *)
(*   - the strategy runners (SimpleAgentRunner, TradingAgent,              *)
(*     LiquidityAgent) and the Running-Agent map,                          *)
(*   - TokenService.transferSol's retry loop,                              *)
(*   - WalletService.sendTransaction and the ProgramAllowlist.             *)
(*   - the key store (KeyManager.saveKeypair / loadKeypair),               *)
(*   - the EventBus and its subscribers.                                   *)
(*                                                                         *)
(* Every async method is cut at its await points: one action per stretch   *)
(* of synchronous code that runs between two suspensions, so that the      *)
(* interleavings of the single-threaded event loop are exactly the         *)
(* interleavings of the actions.                                           *)
(*                                                                         *)
(* Amounts of SOL are integers in units of 0.1 SOL.                        *)
(***************************************************************************)
EXTENDS Integers, Sequences, FiniteSets, TLC

\* ------------------------------------------------------------------ bounds
MaxKeys == 2        \* keypairs generated under one wallet name in one behaviour
MaxTime == 1        \* the wall clock runs over 0..MaxTime
MaxDebt == 0        \* solSpent is kept >= -MaxDebt (negative amounts are accepted)

\* config.ts: DEFAULT_SPENDING_LIMIT = parseFloat(env ?? "1.0"), in 0.1 SOL
DEFAULT_SPENDING_LIMIT == 10

\* ------------------------------------------------------------------ inputs
None == <<>>
Some(v) == <<v>>
\* JavaScript's `x ?? d`
Coalesce(x, d) == IF x = None THEN d ELSE x[1]

ExplicitNames == {1}                          \* wallet names given by callers
DefaultName(t) == 100 + t                     \* `agent-${Date.now()}`
WalletNames == ExplicitNames \cup {DefaultName(t) : t \in 0..MaxTime}
NameChoices == {None} \cup {Some(n) : n \in ExplicitNames}
LimitChoices == {None, Some(-1), Some(5)}     \* spendingLimit?: number
SolChoices == {-10, 0, 5, 6}                  \* sol: number
Callers == {"a", "b"}                         \* logical call sites (HTTP, CLI)
AgentIds == {1, 2}                            \* the ids randomUUID() draws, in order
Ids == AgentIds \cup {3}                       \* and an id no record ever has

\* ------------------------------------------------------------------ state
VARIABLES
  store,      \* data/agents.json: the persisted sequence of AgentRecords
  keys,       \* the keystore directory: wallet name -> the keypair in its file; the
              \* k-th keypair generated for a name is k (0: no file)
  generated,  \* per wallet name, the keypairs Keypair.generate() has drawn for it
  nextId,     \* next randomUUID()
  now,        \* new Date()
  calls,      \* registry calls in flight, one per caller
  outcome     \* per caller, what the step just taken returned or threw to it
              \* (NoOutcome when the step settled no call of that caller)

regVars == <<store, keys, generated, nextId, now, calls, outcome>>

VARIABLES
  runningAgents,  \* Orchestrator.runningAgents: agent id -> the runner registered for it
                  \* (the Runners slot of the run that made it; "none" when absent)
  runs,           \* the run operations in flight and their runner objects
  runOutcome,     \* per run slot, what the step just taken returned or threw
  submitted,      \* per agent id, the SOL its loops' confirmed transfers have moved
  sentPrograms,   \* the programs of the transactions the loops have sent to the network
  allowedPrograms,\* ProgramAllowlist.allowedPrograms of the process's WalletService
  koraEnabled,    \* KoraClient.isEnabled(): KORA_RPC_URL is configured
  throwingHandlers,\* EventBus.handlers: the events that have a subscribed handler
                  \* which throws when it is called
  send,           \* the WalletService.sendTransaction call in flight, or the last one
                  \* made, with the network calls it has made
  signing         \* the WalletService.signTransaction call in flight, or the last one
                  \* made: the transaction's fields as given and as they are now

VARIABLES
  keystoreDir,    \* the KEYSTORE_DIR directory exists
  keyFiles,       \* KEYSTORE_DIR/<name>.json: per file name its StoredKeypair, or NoFile;
                  \* the files' contents, where keys above is the registry's view of
                  \* which keypair a name resolves to
  written,        \* per wallet name, what saveKeypair last wrote for it, with the
                  \* passphrase and the keypair it encrypted (history, for the claims)
  custody         \* the KeyManager call in flight, or the last one made, and its result

loopVars == <<runningAgents, runs, runOutcome, submitted, sentPrograms>>
cfgVars == <<allowedPrograms, koraEnabled, throwingHandlers>>
sendVars == <<send, signing>>
keyVars == <<keystoreDir, keyFiles, written, custody>>
vars == <<regVars, loopVars, cfgVars, sendVars, keyVars>>

NoRecord ==
  [id |-> 0, walletName |-> 0, walletAddress |-> 0, solSpent |-> 0,
   spendingLimit |-> 0, lastUpdated |-> 0]

IdleCall ==
  [op |-> "idle", pc |-> "idle", id |-> 0, sol |-> 0, record |-> NoRecord, all |-> <<>>]

Rejected(op, status, id) == [op |-> op, status |-> status, id |-> id]

NoOutcome == [op |-> "none", status |-> "none", id |-> 0]

\* ------------------------------------------------------------------ helpers
\* Array.prototype.findIndex on the id, 1-based; 0 when absent (-1 in the code)
RECURSIVE findIndex(_, _, _)
findIndex(all, id, i) ==
  IF i > Len(all) THEN 0
  ELSE IF all[i].id = id THEN i
  ELSE findIndex(all, id, i + 1)

\* Orchestrator.getAgent: all.find((agent) => agent.id === id)
getAgent(all, id) ==
  LET i == findIndex(all, id, 1) IN IF i = 0 THEN NoRecord ELSE all[i]

\* promoteWallet: all.find((a) => a.walletName === walletName) is defined
RECURSIVE hasWalletName(_, _, _)
hasWalletName(all, name, i) ==
  IF i > Len(all) THEN FALSE
  ELSE all[i].walletName = name \/ hasWalletName(all, name, i + 1)

\* trackSpending / checkSpendingLimit: spent > limit
ExceedsLimitAmountOnly(solSpent, sol, limit) == sol > limit
ExceedsLimitAtEquality(solSpent, sol, limit) == solSpent + sol >= limit
ExceedsLimit(solSpent, sol, limit) == solSpent + sol > limit

\* the record a spawn or promote builds
newRecord(id, name, address, limit, t) ==
  [id |-> id, walletName |-> name, walletAddress |-> address, solSpent |-> 0,
   spendingLimit |-> Coalesce(limit, DEFAULT_SPENDING_LIMIT), lastUpdated |-> t]

\* EventBus.emit: the handlers of the event are called in turn, synchronously
\* and without a catch, so emit throws what a handler throws
Events == {"agent_spawned", "agent_started", "agent_stopped", "agent_completed"}
emitThrows(event) == event \in throwingHandlers
\* what the caller of a method gets when the method's last statement before
\* its return is the emit of the event
emitThenReturn(event) == IF emitThrows(event) THEN "HandlerError" ELSE "ok"

\* the call settles: its promise resolves ("ok") or rejects with the error named
Silent == [c \in Callers |-> NoOutcome]
Settle(c, op, status, id) == [Silent EXCEPT ![c] = Rejected(op, status, id)]
Finish(c, op, status, id) ==
  /\ calls' = [calls EXCEPT ![c] = IdleCall]
  /\ outcome' = Settle(c, op, status, id)

\* ------------------------------------------------------------------ Init
InitRegistry ==
  /\ store = <<>>
  /\ keys = [n \in WalletNames |-> 0]
  /\ nextId = 1
  /\ generated = [n \in WalletNames |-> 0]
  /\ now = 0
  /\ calls = [c \in Callers |-> IdleCall]
  /\ outcome = Silent

\* ------------------------------------------------------------------ clock
Tick ==
  /\ now < MaxTime
  /\ now' = now + 1
  /\ outcome' = Silent
  /\ UNCHANGED <<store, keys, generated, nextId, calls>>

\* ------------------------------------------------------------------ wallets
\* WalletService.createWallet called on its own (wallet:create, POST /wallets/create)
createWallet(name) ==
  /\ generated[name] < MaxKeys
  /\ generated' = [generated EXCEPT ![name] = @ + 1]
  /\ keys' = [keys EXCEPT ![name] = generated'[name]]
  /\ outcome' = Silent
  /\ UNCHANGED <<store, nextId, now, calls>>

\* ------------------------------------------------------------------ spawn
\* spawnAgent up to `await this.readAgents()`: the wallet file is written
\* (overwriting any file of that name) and the record is built
spawnAgent(c, walletName, spendingLimit) ==
  /\ calls[c].op = "idle"
  /\ nextId \in AgentIds
  /\ LET name == Coalesce(walletName, DefaultName(now)) IN
       /\ generated[name] < MaxKeys
       /\ generated' = [generated EXCEPT ![name] = @ + 1]
       /\ keys' = [keys EXCEPT ![name] = generated'[name]]
       /\ calls' = [calls EXCEPT ![c] =
            [IdleCall EXCEPT !.op = "spawnAgent", !.pc = "readAgents", !.id = nextId,
                             !.record = newRecord(nextId, name, generated'[name],
                                                  spendingLimit, now)]]
  /\ nextId' = nextId + 1
  /\ outcome' = Silent
  /\ UNCHANGED <<store, now>>

\* const all = await this.readAgents(); all.push(record)
spawnRead(c) ==
  /\ calls[c].op = "spawnAgent" /\ calls[c].pc = "readAgents"
  /\ calls' = [calls EXCEPT ![c].all = Append(store, calls[c].record), ![c].pc = "writeAgents"]
  /\ outcome' = Silent
  /\ UNCHANGED <<store, keys, generated, nextId, now>>

\* await this.writeAgents(all); emit agent_spawned; return record
spawnWrite(c) ==
  /\ calls[c].op = "spawnAgent" /\ calls[c].pc = "writeAgents"
  /\ store' = calls[c].all
  /\ Finish(c, "spawnAgent", emitThenReturn("agent_spawned"), calls[c].id)
  /\ UNCHANGED <<keys, generated, nextId, now>>

\* ------------------------------------------------------------------ promote
\* promoteWallet up to `await this.walletService.loadWallet(walletName)`
promoteWallet(c, walletName, spendingLimit) ==
  /\ calls[c].op = "idle"
  /\ IF hasWalletName(store, walletName, 1)
     THEN /\ calls' = calls
          /\ outcome' = Settle(c, "promoteWallet", "Duplicate", 0)
     ELSE /\ nextId \in AgentIds
          /\ calls' = [calls EXCEPT ![c] =
               [IdleCall EXCEPT !.op = "promoteWallet", !.pc = "loadWallet",
                                !.record = newRecord(0, walletName, 0, spendingLimit, 0),
                                !.all = store]]
          /\ outcome' = Silent
  /\ UNCHANGED <<store, keys, generated, nextId, now>>

\* loadWallet throws when the file is absent; otherwise the record is built,
\* pushed onto the collection read at the start, and writeAgents is begun
promoteLoadCreates(c) ==
  /\ calls[c].op = "promoteWallet" /\ calls[c].pc = "loadWallet"
  /\ nextId \in AgentIds
  /\ LET name == calls[c].record.walletName IN
       /\ keys[name] = 0 => generated[name] < MaxKeys
       /\ generated' = IF keys[name] = 0 THEN [generated EXCEPT ![name] = @ + 1] ELSE generated
       /\ keys' = IF keys[name] = 0 THEN [keys EXCEPT ![name] = generated'[name]] ELSE keys
       /\ LET rec == newRecord(nextId, name, keys'[name],
                               Some(calls[c].record.spendingLimit), now) IN
            calls' = [calls EXCEPT ![c].record = rec, ![c].id = nextId,
                                   ![c].all = Append(calls[c].all, rec),
                                   ![c].pc = "writeAgents"]
  /\ nextId' = nextId + 1
  /\ outcome' = Silent
  /\ UNCHANGED <<store, now>>
promoteLoad(c) ==
  /\ calls[c].op = "promoteWallet" /\ calls[c].pc = "loadWallet"
  /\ LET name == calls[c].record.walletName IN
     IF keys[name] = 0
     THEN /\ Finish(c, "promoteWallet", "NotFound", 0)
          /\ UNCHANGED nextId
     ELSE /\ nextId \in AgentIds
          /\ LET rec == newRecord(nextId, name, keys[name],
                                  Some(calls[c].record.spendingLimit), now) IN
               calls' = [calls EXCEPT ![c].record = rec, ![c].id = nextId,
                                      ![c].all = Append(calls[c].all, rec),
                                      ![c].pc = "writeAgents"]
          /\ nextId' = nextId + 1
          /\ outcome' = Silent
  /\ UNCHANGED <<store, keys, generated, now>>

promoteWrite(c) ==
  /\ calls[c].op = "promoteWallet" /\ calls[c].pc = "writeAgents"
  /\ store' = calls[c].all
  /\ Finish(c, "promoteWallet", emitThenReturn("agent_spawned"), calls[c].id)
  /\ UNCHANGED <<keys, generated, nextId, now>>

\* ------------------------------------------------------------------ trackSpending
\* trackSpending from the call to `await this.updateAgent(record)`: the
\* collection is read, the record found, the limit checked and the local copy
\* of the record updated
trackSpending(c, id, sol) ==
  /\ calls[c].op = "idle"
  /\ LET record == getAgent(store, id) IN
     IF record.id = 0
     THEN /\ calls' = calls
          /\ outcome' = Settle(c, "trackSpending", "NotFound", id)
     ELSE IF ExceedsLimit(record.solSpent, sol, record.spendingLimit)
     THEN /\ calls' = calls
          /\ outcome' = Settle(c, "trackSpending", "LimitExceeded", id)
     ELSE /\ record.solSpent + sol >= -MaxDebt
          /\ calls' = [calls EXCEPT ![c] =
               [IdleCall EXCEPT !.op = "trackSpending", !.pc = "updateAgent",
                                !.id = id, !.sol = sol,
                                !.record = [record EXCEPT !.solSpent = record.solSpent + sol,
                                                          !.lastUpdated = now]]]
          /\ outcome' = Silent
  /\ UNCHANGED <<store, keys, generated, nextId, now>>

\* updateAgent: const all = await this.readAgents(); findIndex; all[index] = record
updateAgent(c) ==
  /\ calls[c].pc = "updateAgent"
  /\ LET index == findIndex(store, calls[c].id, 1) IN
     IF index = 0
     THEN Finish(c, calls[c].op, "NotFound", calls[c].id)
     ELSE /\ calls' = [calls EXCEPT ![c].all = [store EXCEPT ![index] = calls[c].record],
                                    ![c].pc = "writeAgents"]
          /\ outcome' = Silent
  /\ UNCHANGED <<store, keys, generated, nextId, now>>

\* await this.writeAgents(all); trackSpending resolves
trackSpendingWrite(c) ==
  /\ calls[c].op = "trackSpending" /\ calls[c].pc = "writeAgents"
  /\ store' = calls[c].all
  /\ Finish(c, "trackSpending", "ok", calls[c].id)
  /\ UNCHANGED <<keys, generated, nextId, now>>

\* ------------------------------------------------------------------ checkSpendingLimit
\* checkSpendingLimit: the record is read and the limit tested; nothing is written
checkSpendingLimit(c, id, sol) ==
  /\ calls[c].op = "idle"
  /\ LET record == getAgent(store, id) IN
       outcome' = Settle(c, "checkSpendingLimit",
                         IF record.id = 0 THEN "NotFound"
                         ELSE IF ExceedsLimit(record.solSpent, sol, record.spendingLimit)
                         THEN "LimitExceeded" ELSE "ok",
                         id)
  /\ UNCHANGED <<store, keys, generated, nextId, now, calls>>

\* ------------------------------------------------------------------ updateSplSnapshot
\* updateSplSnapshot up to `await this.walletService.loadWallet(...)`
updateSplSnapshot(c, id) ==
  /\ calls[c].op = "idle"
  /\ LET record == getAgent(store, id) IN
     IF record.id = 0
     THEN /\ calls' = calls
          /\ outcome' = Settle(c, "updateSplSnapshot", "NotFound", id)
     ELSE /\ calls' = [calls EXCEPT ![c] =
               [IdleCall EXCEPT !.op = "updateSplSnapshot", !.pc = "getSplBalances",
                                !.id = id, !.record = record]]
          /\ outcome' = Silent
  /\ UNCHANGED <<store, keys, generated, nextId, now>>

\* loadWallet and getSplBalances have returned (result = None) or one of them
\* has thrown; the balances (not kept in this model's records) and lastUpdated
\* are set on the record read at the start
snapshotBalances(c, result) ==
  /\ calls[c].op = "updateSplSnapshot" /\ calls[c].pc = "getSplBalances"
  /\ IF result = None
     THEN /\ calls' = [calls EXCEPT ![c].record.lastUpdated = now, ![c].pc = "updateAgent"]
          /\ outcome' = Silent
     ELSE Finish(c, "updateSplSnapshot", "error", calls[c].id)
  /\ UNCHANGED <<store, keys, generated, nextId, now>>

\* await this.writeAgents(all); updateSplSnapshot resolves
snapshotWrite(c) ==
  /\ calls[c].op = "updateSplSnapshot" /\ calls[c].pc = "writeAgents"
  /\ store' = calls[c].all
  /\ Finish(c, "updateSplSnapshot", "ok", calls[c].id)
  /\ UNCHANGED <<keys, generated, nextId, now>>

\* ------------------------------------------------------------------ balance, funding
\* getAgentBalance / fundAgent up to `await this.walletService.loadWallet(...)`
lookupThenNetwork(c, op, id) ==
  /\ calls[c].op = "idle"
  /\ LET record == getAgent(store, id) IN
     IF record.id = 0
     THEN /\ calls' = calls
          /\ outcome' = Settle(c, op, "NotFound", id)
     ELSE /\ calls' = [calls EXCEPT ![c] =
               [IdleCall EXCEPT !.op = op, !.pc = "network", !.id = id, !.record = record]]
          /\ outcome' = Silent
  /\ UNCHANGED <<store, keys, generated, nextId, now>>

getAgentBalance(c, id) == lookupThenNetwork(c, "getAgentBalance", id)
fundAgent(c, id) == lookupThenNetwork(c, "fundAgent", id)

\* loadWallet and getSolBalance / requestAirdrop have returned or thrown
networkDone(c, result) ==
  /\ calls[c].pc = "network"
  /\ Finish(c, calls[c].op, IF result = None THEN "ok" ELSE "error", calls[c].id)
  /\ UNCHANGED <<store, keys, generated, nextId, now>>

\* ------------------------------------------------------------------ runners
Runners == {"r1", "r2"}          \* run operations that can be in flight together
NoRunner == "none"               \* runningAgents has no entry for the id
DeadRunner == "dead"             \* the entry's runner belongs to a run that has ended

MaxSubmitted == 12               \* `submitted` counts up to MaxSubmitted and stays there

\* an error, as the set of the phrases of transferSol's test that String(err) contains
Errors == {{"block height exceeded"}, {"Blockhash not found"}, {}}

\* transferSol: msg.includes("block height exceeded") || msg.includes("Blockhash not found")
IsStalenessAlways(err) == TRUE
IsStaleness(err) == "block height exceeded" \in err \/ "Blockhash not found" \in err

\* transferSol: for (let attempt = 0; attempt < 3; attempt++)
MaxAttempts == 3

IdleRun ==
  [kind |-> "idle", pc |-> "idle", id |-> 0, walletName |-> 0, sol |-> 0,
   iterations |-> 0, paced |-> FALSE, i |-> 0, signatures |-> <<>>,
   running |-> FALSE, attempt |-> 0, lastError |-> None, stopInFirst |-> FALSE]

NoRunOutcome ==
  [status |-> "none", id |-> 0, iterations |-> 0, signatures |-> <<>>, error |-> None,
   stopInFirst |-> FALSE]
Quiet == [r \in Runners |-> NoRunOutcome]

\* the runner has a stop() method (TradingAgent, LiquidityAgent) or none (SimpleAgentRunner)
hasStop(kind) == kind \in {"trading", "liquidity"}

\* the loop condition: i < iterations (&& this.running)
loopConditionInclusive(run) ==
  run.i <= run.iterations /\ (hasStop(run.kind) => run.running)
loopCondition(run) ==
  run.i < run.iterations /\ (hasStop(run.kind) => run.running)

\* the pacing condition: intervalMs > 0 && i < iterations - 1 (&& this.running)
paceCondition(run) ==
  run.paced /\ run.i < run.iterations - 1 /\ (hasStop(run.kind) => run.running)

\* The synchronous stretch of a strategy loop from the loop condition (loopHead)
\* or from the end of an iteration's action (afterAction) to its next
\* suspension, as the set of run states it can suspend in: pc is the awaited
\* call, or "return" when the loop has ended.
RECURSIVE loopHead(_), afterAction(_)
loopHead(run) ==
  IF ~loopCondition(run) THEN {[run EXCEPT !.pc = "return"]}
  ELSE CASE run.kind = "simple_transfer" ->
              \* roll >= holdProbability: transferSol begins; otherwise hold
              {[run EXCEPT !.pc = "getLatestBlockhash", !.attempt = 0, !.lastError = None]}
                \cup afterAction(run)
         [] run.kind = "trading" ->
              \* evaluateMarket: BUY, SELL or HOLD
              {[run EXCEPT !.pc = "mintSpl"], [run EXCEPT !.pc = "getSplBalances"]}
                \cup afterAction(run)
         [] run.kind = "liquidity" ->
              \* every iteration begins with await getSplBalances
              {[run EXCEPT !.pc = "observe"]}
afterAction(run) ==
  IF paceCondition(run) THEN {[run EXCEPT !.pc = "sleep"]}
  ELSE loopHead([run EXCEPT !.i = @ + 1])

\* the run operation rejects with the error thrown inside it: the lines after
\* `await runner.run...` never execute, the entry of runningAgents stays
runThrows(r, status, err) ==
  /\ runs' = [runs EXCEPT ![r] = IdleRun]
  /\ runningAgents' = [runningAgents EXCEPT
       ![runs[r].id] = IF @ = r THEN DeadRunner ELSE @]
  /\ runOutcome' = [Quiet EXCEPT ![r] =
       [status |-> status, id |-> runs[r].id, iterations |-> runs[r].iterations,
        signatures |-> runs[r].signatures, error |-> err,
        stopInFirst |-> runs[r].stopInFirst]]

\* the run of slot r suspends in state `next`, or, when its loop has returned,
\* the run operation finishes: runningAgents.delete(id); emit agent_completed;
\* return signatures. `registered` is runningAgents as this step found or made it.
land(r, next, registered) ==
  IF next.pc = "return"
  THEN /\ runs' = [runs EXCEPT ![r] = IdleRun]
       /\ runningAgents' = [registered EXCEPT ![next.id] = NoRunner]
       /\ runOutcome' = [Quiet EXCEPT ![r] =
            [status |-> emitThenReturn("agent_completed"), id |-> next.id,
             iterations |-> next.iterations,
             signatures |-> next.signatures, error |-> None,
             stopInFirst |-> next.stopInFirst]]
  ELSE /\ runs' = [runs EXCEPT ![r] = next]
       /\ runningAgents' = registered
       /\ runOutcome' = Quiet

\* runAgentLoop / runTradingAgent / runLiquidityAgent up to
\* `await this.walletService.loadWallet(record.walletName)`
runCall(r, kind, id, sol, iterations, paced) ==
  /\ runs[r].kind = "idle"
  /\ LET record == getAgent(store, id) IN
     IF record.id = 0
     THEN /\ runs' = runs
          /\ runOutcome' = [Quiet EXCEPT ![r] =
               [NoRunOutcome EXCEPT !.status = "NotFound", !.id = id]]
     ELSE /\ runs' = [runs EXCEPT ![r] =
               [IdleRun EXCEPT !.kind = kind, !.pc = "loadWallet", !.id = id,
                               !.walletName = record.walletName, !.sol = sol,
                               !.iterations = iterations, !.paced = paced]]
          /\ runOutcome' = Quiet
  /\ UNCHANGED <<runningAgents, submitted, sentPrograms>>

runAgentLoop(r, id, sol, iterations, paced) ==
  runCall(r, "simple_transfer", id, sol, iterations, paced)

runTradingAgent(r, id, iterations, paced) ==
  runCall(r, "trading", id, 0, iterations, paced)

runLiquidityAgent(r, id, iterations, paced) ==
  runCall(r, "liquidity", id, 0, iterations, paced)

\* the wallet is loaded: the runner is made and registered
\* (this.runningAgents.set(id, {id, runner})), agent_started is emitted and the
\* loop runs to its first suspension
runLoop(r) ==
  /\ runs[r].pc = "loadWallet"
  /\ IF keys[runs[r].walletName] = 0
     THEN runThrows(r, "NotFound", None)
     ELSE IF emitThrows("agent_started")
     THEN \* the entry is set, emit throws: runner.run is never called
          /\ runs' = [runs EXCEPT ![r] = IdleRun]
          /\ runningAgents' = [runningAgents EXCEPT ![runs[r].id] = DeadRunner]
          /\ runOutcome' = [Quiet EXCEPT ![r] =
               [NoRunOutcome EXCEPT !.status = "HandlerError", !.id = runs[r].id,
                                    !.iterations = runs[r].iterations]]
     ELSE \E next \in loopHead([runs[r] EXCEPT !.running = hasStop(runs[r].kind)]) :
            land(r, next, [runningAgents EXCEPT ![runs[r].id] = r])
  /\ UNCHANGED <<submitted, sentPrograms>>

\* await sleep(intervalMs) is over: i += 1 and the loop condition is tested
sleepDone(r) ==
  /\ runs[r].pc = "sleep"
  /\ \E next \in loopHead([runs[r] EXCEPT !.i = @ + 1]) : land(r, next, runningAgents)
  /\ UNCHANGED <<submitted, sentPrograms>>

\* ------------------------------------------------------------------ transferSol
\* the catch block of transferSol: retry on a staleness error while attempts
\* are left, otherwise throw; SimpleAgentRunner and runAgentLoop do not catch
transferSolCatchSameBlockhash(r, err) ==
  IF IsStaleness(err) /\ runs[r].attempt + 1 < MaxAttempts
  THEN /\ runs' = [runs EXCEPT ![r].attempt = @ + 1, ![r].lastError = Some(err),
                               ![r].pc = "sendAndConfirmTransaction"]
       /\ runOutcome' = Quiet
       /\ UNCHANGED runningAgents
  ELSE runThrows(r, "error", Some(err))
transferSolCatch(r, err) ==
  IF IsStaleness(err) /\ runs[r].attempt + 1 < MaxAttempts
  THEN /\ runs' = [runs EXCEPT ![r].attempt = @ + 1, ![r].lastError = Some(err),
                               ![r].pc = "getLatestBlockhash"]
       /\ runOutcome' = Quiet
       /\ UNCHANGED runningAgents
  ELSE runThrows(r, "error", Some(err))

\* await this.connection.getLatestBlockhash("confirmed")
getLatestBlockhash(r, result) ==
  /\ runs[r].pc = "getLatestBlockhash"
  /\ IF result = None
     THEN /\ runs' = [runs EXCEPT ![r].pc = "sendAndConfirmTransaction"]
          /\ runOutcome' = Quiet
          /\ UNCHANGED runningAgents
     ELSE transferSolCatch(r, result[1])
  /\ UNCHANGED <<submitted, sentPrograms>>

\* await sendAndConfirmTransaction(connection, tx, [from], ...): on success the
\* transfer is confirmed, transferSol returns, the signature is pushed and the
\* loop goes on to its next suspension
sendAndConfirmTransaction(r, result) ==
  /\ runs[r].pc = "sendAndConfirmTransaction"
  /\ IF result = None
     THEN /\ submitted' = [submitted EXCEPT ![runs[r].id] =
               IF @ + runs[r].sol <= MaxSubmitted THEN @ + runs[r].sol ELSE MaxSubmitted]
          /\ sentPrograms' = sentPrograms \cup {"System"}
          /\ \E next \in afterAction([runs[r] EXCEPT !.signatures = Append(@, runs[r].i)]) :
               land(r, next, runningAgents)
     ELSE /\ transferSolCatch(r, result[1])
          /\ UNCHANGED <<submitted, sentPrograms>>

\* ------------------------------------------------------------------ SPL actions
\* await this.tokenService.getSplBalances(...): in the trading loop (SELL,
\* inside try) the balance found decides whether transferSpl is called; in the
\* liquidity loop (top of the iteration, outside try) evaluateBalance decides
getSplBalances(r, result) ==
  /\ runs[r].pc \in {"getSplBalances", "observe"}
  /\ IF runs[r].pc = "observe"
     THEN IF result = None
          THEN \E next \in {[runs[r] EXCEPT !.pc = "mintSpl"],
                            [runs[r] EXCEPT !.pc = "transferSpl"]}
                             \cup afterAction(runs[r]) :
                 land(r, next, runningAgents)
          ELSE runThrows(r, "error", result)
     ELSE IF result = None
          THEN \E next \in {[runs[r] EXCEPT !.pc = "transferSpl"]} \cup afterAction(runs[r]) :
                 land(r, next, runningAgents)
          ELSE \E next \in afterAction(runs[r]) : land(r, next, runningAgents)
  /\ UNCHANGED <<submitted, sentPrograms>>

\* await mintSpl(...) / await transferSpl(...), both inside try: on success the
\* token transaction is confirmed and its signature pushed; a failure is logged
splAction(r, result) ==
  /\ runs[r].pc \in {"mintSpl", "transferSpl"}
  /\ IF result = None
     THEN /\ sentPrograms' = sentPrograms \cup {"Token"}
          /\ \E next \in afterAction([runs[r] EXCEPT !.signatures = Append(@, runs[r].i)]) :
               land(r, next, runningAgents)
     ELSE /\ sentPrograms' = sentPrograms
          /\ \E next \in afterAction(runs[r]) : land(r, next, runningAgents)
  /\ UNCHANGED submitted

\* ------------------------------------------------------------------ stop
\* an action of the loop is awaited (the loop is neither pacing nor loading)
inFlight(run) ==
  run.pc \in {"getLatestBlockhash", "sendAndConfirmTransaction", "mintSpl",
              "transferSpl", "getSplBalances", "observe"}

\* stopAgent up to `await this.updateAgent(record)`: the registered runner is
\* stopped if it has a stop(), its entry deleted, agent_stopped emitted; then
\* the record is read and stamped
stopAgent(c, id) ==
  /\ calls[c].op = "idle"
  /\ LET running == runningAgents[id] IN
       /\ runningAgents' = [runningAgents EXCEPT ![id] = NoRunner]
       /\ runs' = [r \in Runners |->
            IF r = running
            THEN [runs[r] EXCEPT
                    !.running = IF hasStop(runs[r].kind) THEN FALSE ELSE @,
                    !.stopInFirst = @ \/ (runs[r].i = 0 /\ inFlight(runs[r]))]
            ELSE runs[r]]
  /\ LET record == getAgent(store, id) IN
     IF runningAgents[id] # NoRunner /\ emitThrows("agent_stopped")
     THEN /\ calls' = calls
          /\ outcome' = Settle(c, "stopAgent", "HandlerError", id)
     ELSE IF record.id = 0
     THEN /\ calls' = calls
          /\ outcome' = Settle(c, "stopAgent", "ok", id)
     ELSE /\ calls' = [calls EXCEPT ![c] =
               [IdleCall EXCEPT !.op = "stopAgent", !.pc = "updateAgent", !.id = id,
                                !.record = [record EXCEPT !.lastUpdated = now]]]
          /\ outcome' = Silent
  /\ runOutcome' = Quiet
  /\ UNCHANGED <<store, keys, generated, nextId, now, submitted, sentPrograms>>

\* await this.writeAgents(all); stopAgent resolves
stopWrite(c) ==
  /\ calls[c].op = "stopAgent" /\ calls[c].pc = "writeAgents"
  /\ store' = calls[c].all
  /\ Finish(c, "stopAgent", "ok", calls[c].id)
  /\ UNCHANGED <<keys, generated, nextId, now>>

\* ------------------------------------------------------------------ allowlist
Programs == {"System", "Token", "Memo"}
\* a transaction, as the programs its instructions target, in order
Transactions == {<<>>} \cup {<<p>> : p \in Programs} \cup {<<p, q>> : p, q \in Programs}

\* ProgramAllowlist.isAllowed
isAllowedNonEmptyOnly(allowed, programId) == programId \in allowed
isAllowed(allowed, programId) ==
  IF Cardinality(allowed) = 0 THEN TRUE ELSE programId \in allowed

\* ProgramAllowlist.validateTransaction: the index of the instruction it throws
\* on (its program is the one the error names), 0 when it returns
RECURSIVE firstDisallowed(_, _, _)
firstDisallowed(allowed, tx, i) ==
  IF i > Len(tx) THEN 0
  ELSE IF ~isAllowed(allowed, tx[i]) THEN i
  ELSE firstDisallowed(allowed, tx, i + 1)

validateFirstInstructionOnly(allowed, tx) ==
  IF Len(tx) > 0 /\ ~isAllowed(allowed, tx[1]) THEN 1 ELSE 0
\* the index of the last instruction outside the allowlist
validateLastDisallowed(allowed, tx) ==
  LET bad == {i \in 1..Len(tx) : ~isAllowed(allowed, tx[i])} IN
  IF bad = {} THEN 0 ELSE CHOOSE i \in bad : \A j \in bad : j <= i
validateTransaction(allowed, tx) ==
  IF Cardinality(allowed) = 0 THEN 0 ELSE firstDisallowed(allowed, tx, 1)

\* ------------------------------------------------------------------ sendTransaction
IdleSend ==
  [pc |-> "idle", tx |-> <<>>, skipSimulation |-> FALSE, status |-> "none",
   violator |-> "", simulated |-> FALSE, simulationErr |-> FALSE,
   koraSent |-> FALSE, rpcSent |-> FALSE, confirmed |-> FALSE]

\* sendTransaction: if (simulation.err) throw
simulationIgnored(err) == FALSE
simulationFailed(err) == err # None

\* sendTransaction from the call to its first await: the allowlist check, then
\* either the simulation begins or, when it is skipped, the submission
sendTransaction(tx, skipSimulation) ==
  /\ send.pc = "idle"
  /\ LET call == [IdleSend EXCEPT !.tx = tx, !.skipSimulation = skipSimulation]
         bad == validateTransaction(allowedPrograms, tx) IN
     IF bad # 0
     THEN send' = [call EXCEPT !.status = "PolicyViolation", !.violator = tx[bad]]
     ELSE IF ~skipSimulation
     THEN send' = [call EXCEPT !.pc = "simulateTransaction"]
     ELSE send' = [call EXCEPT !.pc = "sendRawTransaction"]
  /\ UNCHANGED <<regVars, loopVars, cfgVars, keyVars, signing>>

\* await this.simulateTransaction(tx) returns {err, logs, unitsConsumed}
simulateTransaction(err) ==
  /\ send.pc = "simulateTransaction"
  /\ IF simulationFailed(err)
     THEN send' = [send EXCEPT !.pc = "idle", !.status = "SimulationFailed",
                               !.simulated = TRUE, !.simulationErr = err # None]
     ELSE send' = [send EXCEPT !.pc = "sendRawTransaction",
                               !.simulated = TRUE, !.simulationErr = err # None]
  /\ UNCHANGED <<regVars, loopVars, cfgVars, keyVars, signing>>

\* await this.simulateTransaction(tx) throws (the RPC call itself fails)
simulateTransactionThrows ==
  /\ send.pc = "simulateTransaction"
  /\ send' = [send EXCEPT !.pc = "idle", !.status = "error", !.simulated = TRUE]
  /\ UNCHANGED <<regVars, loopVars, cfgVars, keyVars, signing>>

\* sendTransaction: if (this.koraClient.isEnabled()) return
\* this.koraClient.sendTransaction(tx); otherwise the RPC connection is used
channelAlwaysDirect(enabled) == "rpc"
channel(enabled) == IF enabled THEN "kora" ELSE "rpc"

\* await sendRawTransaction(...), on the relay's connection when Kora is
\* enabled and on the RPC connection otherwise; it may throw
sendRawTransaction(result) ==
  /\ send.pc = "sendRawTransaction"
  /\ IF result = None
     THEN send' = [send EXCEPT !.pc = "confirmTransaction",
                               !.koraSent = (channel(koraEnabled) = "kora"),
                               !.rpcSent = (channel(koraEnabled) = "rpc")]
     ELSE send' = [send EXCEPT !.pc = "idle", !.status = "error"]
  /\ UNCHANGED <<regVars, loopVars, cfgVars, keyVars, signing>>

\* await confirmTransaction(signature, "confirmed"); return signature
confirmTransaction(result) ==
  /\ send.pc = "confirmTransaction"
  /\ IF result = None
     THEN send' = [send EXCEPT !.pc = "idle", !.status = "ok", !.confirmed = TRUE]
     ELSE send' = [send EXCEPT !.pc = "idle", !.status = "error"]
  /\ UNCHANGED <<regVars, loopVars, cfgVars, keyVars, signing>>

\* ------------------------------------------------------------------ signTransaction
\* a field of the transaction that was never assigned
Undefined == "undefined"
PublicKeys == {"k1", "k2", "k3"}
Blockhashes == {"h1", "h2"}
\* tx.feePayer and tx.recentBlockhash as a caller can hand them over
FeePayers == {Undefined} \cup PublicKeys
RecentBlockhashes == {Undefined, ""} \cup Blockhashes
\* what connection.getLatestBlockhash("confirmed") resolves with, or None when it rejects
FetchResults == {None, Some("h2"), Some("h3")}

\* JavaScript's `!v` for a field that is a string, an object or undefined
falsyAlways(v) == TRUE
falsy(v) == v \in {Undefined, ""}

IdleSign ==
  [pc |-> "idle", given |-> [feePayer |-> Undefined, recentBlockhash |-> Undefined],
   wallet |-> Undefined, feePayer |-> Undefined, recentBlockhash |-> Undefined,
   fetches |-> 0, signatures |-> {}, status |-> "none"]

\* signTransaction from the call to its await, or to its return when the
\* transaction carries a blockhash: tx.sign(wallet) adds the signature of
\* wallet and leaves feePayer and recentBlockhash alone
signTransaction(tx, wallet) ==
  /\ signing.pc = "idle"
  /\ LET call == [IdleSign EXCEPT !.given = tx, !.wallet = wallet,
                     !.feePayer = IF falsy(tx.feePayer) THEN wallet ELSE tx.feePayer,
                     !.recentBlockhash = tx.recentBlockhash] IN
     IF falsy(tx.recentBlockhash)
     THEN signing' = [call EXCEPT !.pc = "getLatestBlockhash", !.fetches = 1]
     ELSE signing' = [call EXCEPT !.signatures = {wallet}, !.status = "ok"]
  /\ UNCHANGED <<regVars, loopVars, cfgVars, keyVars, send>>

\* await this.connection.getLatestBlockhash("confirmed") resolves: the
\* blockhash is assigned and the transaction signed; or it rejects and
\* signTransaction rejects with the fee payer already assigned
signGetLatestBlockhash(result) ==
  /\ signing.pc = "getLatestBlockhash"
  /\ IF result = None
     THEN signing' = [signing EXCEPT !.pc = "idle", !.status = "error"]
     ELSE signing' = [signing EXCEPT !.pc = "idle", !.recentBlockhash = result[1],
                                     !.signatures = {signing.wallet}, !.status = "ok"]
  /\ UNCHANGED <<regVars, loopVars, cfgVars, keyVars, send>>

\* ------------------------------------------------------------------ key custody
\* KeyManager and the files of KEYSTORE_DIR. A byte string is [len, bits]:
\* its length in bytes and one representative bit of its content, so that a
\* single-bit change is bits' = 1 - bits. AES-256-GCM and scrypt are ideal:
\* scrypt is injective, and a tag verifies only for the key, nonce and
\* ciphertext it was computed from.
IV_LENGTH == 12
SALT_LENGTH == 16
TAG_LENGTH == 16
SECRET_KEY_LENGTH == 64

KeyNames == {1, 2}
Passphrases == {1, 2}
SavePassphrases == {1}
Bits == {0, 1}
xor(a, b) == (a + b) % 2

\* the number of bits of the last base64 character that carry no data
spareBits(len) == IF len % 3 = 0 THEN 0 ELSE IF len % 3 = 1 THEN 4 ELSE 2

\* buffer.toString("base64"): the text carries the bytes, and the unused bits
\* of its last character (one representative bit, spare) are written as 0
toBase64(bytes) == [spare |-> 0] @@ bytes

\* Buffer.from(text, "base64"): the unused bits are not looked at
fromBase64(text) == [f \in DOMAIN text \ {"spare"} |-> text[f]]

\* Keypair.generate(), Keypair.fromSecretKey(secretKey): the public key is
\* derived from the secret key
publicKeyOf(secretBits) == 10 + secretBits
fromSecretKey(secretKey) ==
  [secretKey |-> secretKey, publicKey |-> publicKeyOf(secretKey.bits)]
Keypairs == {fromSecretKey([len |-> SECRET_KEY_LENGTH, bits |-> b]) : b \in Bits}
NoKeypair == [secretKey |-> [len |-> 0, bits |-> 0], publicKey |-> 0]

\* scryptSync(this.passphrase, salt, KEY_LENGTH)
deriveKey(passphrase, salt) == <<passphrase, salt.bits>>

\* the AES-CTR key stream of a key and a nonce
keystream(key, iv) == (key[1] + key[2] + iv.bits) % 2

\* cipher.update(...) ++ cipher.final(), and cipher.getAuthTag(); the tag's
\* bits field is its difference from the value GCM computes (mac)
gcmEncrypt(key, iv, plain) ==
  [len |-> plain.len, bits |-> xor(plain.bits, keystream(key, iv))]
getAuthTag(key, iv, cipherText) ==
  [len |-> TAG_LENGTH, bits |-> 0, mac |-> <<key, iv.bits, cipherText.bits>>]

\* decipher.update(...) ++ decipher.final()
gcmDecryptIdentity(key, iv, cipherText) == cipherText
gcmDecrypt(key, iv, cipherText) ==
  [len |-> cipherText.len, bits |-> xor(cipherText.bits, keystream(key, iv))]

\* decipher.final() throws unless the tag set by setAuthTag is the tag of the
\* key, the nonce and the ciphertext
tagAccepted(key, iv, cipherText, tag) == TRUE
tagVerifies(key, iv, cipherText, tag) == tag = getAuthTag(key, iv, cipherText)

NoFile == [name |-> 0]
encryptKeypair(passphrase, name, keypair, iv, salt) ==
  LET key == deriveKey(passphrase, salt)
      cipherText == gcmEncrypt(key, iv, keypair.secretKey) IN
  [name |-> name, publicKey |-> keypair.publicKey,
   cipherText |-> toBase64(cipherText), iv |-> toBase64(iv),
   salt |-> toBase64(salt), tag |-> toBase64(getAuthTag(key, iv, cipherText))]

decryptKeypair(passphrase, stored) ==
  LET iv == fromBase64(stored.iv)
      salt == fromBase64(stored.salt)
      tag == fromBase64(stored.tag)
      key == deriveKey(passphrase, salt)
      cipherText == fromBase64(stored.cipherText) IN
  IF tagVerifies(key, iv, cipherText, tag)
  THEN [status |-> "ok", keypair |-> fromSecretKey(gcmDecrypt(key, iv, cipherText))]
  ELSE [status |-> "AuthenticationError", keypair |-> NoKeypair]

\* path.join(dir, `${name}.json`), and the entries readdir gives back with
\* the suffix removed
filePath(name) == <<name, ".json">>
FilePaths == {filePath(n) : n \in KeyNames}
listed(files) == {f[1] : f \in {g \in DOMAIN files : files[g] # NoFile /\ g[2] = ".json"}}

\* listKeypairs: try { readdir, filter, map } catch { return [] }
listKeypairsNoCatch(dirExists, files) ==
  IF dirExists THEN [status |-> "ok", names |-> listed(files)]
  ELSE [status |-> "ENOENT", names |-> {}]
listKeypairsResult(dirExists, files) ==
  IF dirExists THEN [status |-> "ok", names |-> listed(files)]
  ELSE [status |-> "ok", names |-> {}]

NoWritten == [stored |-> NoFile, passphrase |-> 0, keypair |-> NoKeypair]
IdleCustody ==
  [op |-> "none", pc |-> "idle", name |-> 0, passphrase |-> 0, keypair |-> NoKeypair,
   stored |-> NoFile, read |-> NoFile, status |-> "none", names |-> {}]

InitKeyStore ==
  /\ keystoreDir = FALSE
  /\ keyFiles = [f \in FilePaths |-> NoFile]
  /\ written = [n \in KeyNames |-> NoWritten]
  /\ custody = IdleCustody

\* createWallet / saveKeypair up to await fs.mkdir: the keypair is generated
\* and encrypted under a fresh nonce and salt
saveKeypair(passphrase, name, keypair, iv, salt) ==
  /\ custody.pc = "idle"
  /\ custody' = [IdleCustody EXCEPT !.op = "saveKeypair", !.pc = "mkdir", !.name = name,
                   !.passphrase = passphrase, !.keypair = keypair,
                   !.stored = encryptKeypair(passphrase, name, keypair, iv, salt)]
  /\ UNCHANGED <<keystoreDir, keyFiles, written>>

\* await fs.mkdir(dir, { recursive: true })
mkdir ==
  /\ custody.pc = "mkdir"
  /\ keystoreDir' = TRUE
  /\ custody' = [custody EXCEPT !.pc = "writeFile"]
  /\ UNCHANGED <<keyFiles, written>>

\* await fs.writeFile(filePath, JSON.stringify(stored, null, 2)); return stored
writeFile ==
  /\ custody.pc = "writeFile"
  /\ keyFiles' = [keyFiles EXCEPT ![filePath(custody.name)] = custody.stored]
  /\ written' = [written EXCEPT ![custody.name] =
                   [stored |-> custody.stored, passphrase |-> custody.passphrase,
                    keypair |-> custody.keypair]]
  /\ custody' = [custody EXCEPT !.pc = "idle", !.status = "ok"]
  /\ UNCHANGED keystoreDir

\* loadWallet / loadKeypair up to await fs.readFile
loadKeypair(passphrase, name) ==
  /\ custody.pc = "idle"
  /\ custody' = [IdleCustody EXCEPT !.op = "loadKeypair", !.pc = "readFile",
                   !.name = name, !.passphrase = passphrase]
  /\ UNCHANGED <<keystoreDir, keyFiles, written>>

\* readFile resolves or rejects; JSON.parse; return this.decryptKeypair(stored)
readFile ==
  /\ custody.pc = "readFile"
  /\ LET raw == keyFiles[filePath(custody.name)] IN
     IF raw = NoFile
     THEN custody' = [custody EXCEPT !.pc = "idle", !.status = "ENOENT"]
     ELSE LET result == decryptKeypair(custody.passphrase, raw) IN
          custody' = [custody EXCEPT !.pc = "idle", !.read = raw,
                        !.status = result.status, !.keypair = result.keypair]
  /\ UNCHANGED <<keystoreDir, keyFiles, written>>

\* listWallets / listKeypairs up to await fs.readdir
listKeypairs ==
  /\ custody.pc = "idle"
  /\ custody' = [IdleCustody EXCEPT !.op = "listKeypairs", !.pc = "readdir"]
  /\ UNCHANGED <<keystoreDir, keyFiles, written>>

\* readdir resolves or rejects
readdir ==
  /\ custody.pc = "readdir"
  /\ LET result == listKeypairsResult(keystoreDir, keyFiles) IN
     custody' = [custody EXCEPT !.pc = "idle", !.status = result.status,
                   !.names = result.names]
  /\ UNCHANGED <<keystoreDir, keyFiles, written>>

\* someone changes one bit of a field of a record file that is as saveKeypair
\* wrote it: a bit of the bytes the field encodes, or an unused bit of the
\* last character of its base64 text
TamperedFields == {"cipherText", "iv", "salt", "tag"}
tamper(name, field, part) ==
  /\ keyFiles[filePath(name)] # NoFile
  /\ keyFiles[filePath(name)] = written[name].stored
  /\ part = "spare" => spareBits(keyFiles[filePath(name)][field].len) > 0
  /\ keyFiles' = [keyFiles EXCEPT ![filePath(name)][field][part] = 1 - @]
  /\ UNCHANGED <<keystoreDir, written, custody>>

\* ------------------------------------------------------------------ specifications
InitLoops ==
  /\ runningAgents = [i \in Ids |-> NoRunner]
  /\ runs = [r \in Runners |-> IdleRun]
  /\ runOutcome = Quiet
  /\ submitted = [i \in Ids |-> 0]
  /\ sentPrograms = {}

\* the steps of caller c, its inputs drawn from the sets given
RegistryStep(c, names, limits, sols) ==
  \/ \E n \in names, l \in limits : spawnAgent(c, n, l)
  \/ spawnRead(c)
  \/ spawnWrite(c)
  \/ \E n \in ExplicitNames, l \in limits : promoteWallet(c, n, l)
  \/ promoteLoad(c)
  \/ promoteWrite(c)
  \/ \E i \in Ids, s \in sols : trackSpending(c, i, s)
  \/ updateAgent(c)
  \/ trackSpendingWrite(c)

Environment ==
  \/ Tick
  \/ \E n \in ExplicitNames : createWallet(n)

\* one caller: every call settles before the next is made
InitConfig ==
  /\ allowedPrograms = {} /\ koraEnabled = FALSE /\ send = IdleSend /\ signing = IdleSign
  /\ throwingHandlers = {}
Init == InitRegistry /\ InitLoops /\ InitConfig /\ InitKeyStore
NextSeq ==
  /\ Environment \/ RegistryStep("a", NameChoices, LimitChoices, SolChoices)
  /\ UNCHANGED <<loopVars, cfgVars, sendVars, keyVars>>
SpecSeq == Init /\ [][NextSeq]_vars

\* two call sites of one process, interleaved at the await points
InterleavedNames == {Some(1)}
InterleavedLimits == {None}
InterleavedSols == {5, 6}
NextRegistry ==
  /\ Environment \/ \E c \in Callers :
                      RegistryStep(c, InterleavedNames, InterleavedLimits, InterleavedSols)
  /\ UNCHANGED <<loopVars, cfgVars, sendVars, keyVars>>
SpecRegistry == Init /\ [][NextRegistry]_vars

\* the strategy loops of one registered agent: the process starts on a registry
\* file that holds the agent's record (spawned by an earlier process), run
\* operations are made in the slots of Runners and stopAgent by caller "b"
LoopSols == {6}
LoopLimits == {None, Some(5)}
Results == {None} \cup {Some(e) : e \in Errors}

StopStep(c, ids) ==
  \/ \E i \in ids : stopAgent(c, i)
  \/ updateAgent(c) /\ UNCHANGED loopVars
  \/ stopWrite(c) /\ UNCHANGED loopVars

\* the steps of run slot r, by the runner they belong to
SimpleStep(r, ids, iterations, paces, results) ==
  /\ \/ \E i \in ids, s \in LoopSols, n \in iterations, p \in paces :
          runAgentLoop(r, i, s, n, p)
     \/ runLoop(r)
     \/ sleepDone(r)
     \/ \E res \in results : getLatestBlockhash(r, res)
     \/ \E res \in results : sendAndConfirmTransaction(r, res)
  /\ UNCHANGED regVars

TradingStep(r, ids, iterations, paces) ==
  /\ \/ \E i \in ids, n \in iterations, p \in paces : runTradingAgent(r, i, n, p)
     \/ runLoop(r)
     \/ sleepDone(r)
     \/ \E res \in Results : getSplBalances(r, res)
     \/ \E res \in Results : splAction(r, res)
  /\ UNCHANGED regVars

LiquidityStep(r, ids, iterations, paces) ==
  /\ \E i \in ids, n \in iterations, p \in paces : runLiquidityAgent(r, i, n, p)
  /\ UNCHANGED regVars

\* the registry file holds one record, spawned with one of the limits given
InitSpawned(limits) ==
  /\ \E l \in limits : store = <<newRecord(1, DefaultName(0), 1, l, 0)>>
  /\ keys = [n \in WalletNames |-> IF n = DefaultName(0) THEN 1 ELSE 0]
  /\ generated = [n \in WalletNames |-> IF n = DefaultName(0) THEN 1 ELSE 0]
  /\ nextId = 2
  /\ now = 0
  /\ calls = [c \in Callers |-> IdleCall]
  /\ outcome = Silent

InitLoop ==
  /\ InitSpawned(LoopLimits) /\ InitLoops /\ InitKeyStore
  /\ allowedPrograms = {"Token"} /\ koraEnabled = FALSE /\ send = IdleSend /\ signing = IdleSign
  /\ throwingHandlers = {}

LoopIterations == {1, 2}
NextLoop ==
  /\ \/ StopStep("b", {1})
     \/ SimpleStep("r1", {1}, LoopIterations, BOOLEAN, Results)
     \/ TradingStep("r1", {1}, LoopIterations, BOOLEAN)
     \/ LiquidityStep("r1", {1}, LoopIterations, BOOLEAN)
     \/ TradingStep("r2", {1}, LoopIterations, {FALSE})
  /\ UNCHANGED <<cfgVars, sendVars, keyVars>>
SpecLoop == InitLoop /\ [][NextLoop]_vars

\* transferSol alone: one simple-transfer run at a time
NextTransfer ==
  /\ SimpleStep("r1", {1}, LoopIterations, BOOLEAN, Results)
  /\ UNCHANGED <<cfgVars, sendVars, keyVars>>
SpecTransfer == InitLoop /\ [][NextTransfer]_vars

\* the cancellation scenario: one run of 10 iterations with intervalMs = 0,
\* and stopAgent calls
CancelIterations == {10}
CancelResults == {None, Some({})}
NextCancel ==
  /\ \/ StopStep("b", {1})
     \/ SimpleStep("r1", {1}, CancelIterations, {FALSE}, CancelResults)
  /\ UNCHANGED <<cfgVars, sendVars, keyVars>>
SpecCancel == InitLoop /\ [][NextCancel]_vars

\* WalletService.sendTransaction under every allowlist and relay configuration
AllowlistChoices == {{}, {"System"}, {"System", "Token"}}
SimulationResults == {None, Some("InstructionError")}
SendResults == {None, Some("SendTransactionError")}
InitSend ==
  /\ InitRegistry /\ InitLoops /\ InitKeyStore
  /\ allowedPrograms \in AllowlistChoices
  /\ koraEnabled \in BOOLEAN
  /\ send = IdleSend /\ signing = IdleSign
  /\ throwingHandlers = {}
NextSend ==
  \/ \E tx \in Transactions, skip \in BOOLEAN : sendTransaction(tx, skip)
  \/ \E err \in SimulationResults : simulateTransaction(err)
  \/ simulateTransactionThrows
  \/ \E res \in SendResults : sendRawTransaction(res)
  \/ \E res \in SendResults : confirmTransaction(res)
SpecSend == InitSend /\ [][NextSend]_vars

\* every registry operation that takes an agent id, one call at a time, on
\* agents spawned with any limit; run operations are started for the id that
\* no record has
LedgerResults == {None, Some({})}
InitLedger == Init
NextLedger ==
  /\ \/ Tick
     \/ \E l \in LimitChoices : spawnAgent("a", None, l)
     \/ spawnRead("a")
     \/ spawnWrite("a")
     \/ \E i \in Ids, s \in SolChoices : checkSpendingLimit("a", i, s)
     \/ \E i \in Ids, s \in SolChoices : trackSpending("a", i, s)
     \/ updateAgent("a")
     \/ trackSpendingWrite("a")
     \/ \E i \in Ids : updateSplSnapshot("a", i)
     \/ \E res \in LedgerResults : snapshotBalances("a", res)
     \/ snapshotWrite("a")
     \/ \E i \in Ids : getAgentBalance("a", i)
     \/ \E i \in Ids : fundAgent("a", i)
     \/ \E res \in LedgerResults : networkDone("a", res)
  /\ UNCHANGED <<loopVars, cfgVars, sendVars, keyVars>>
NextLedgerRuns ==
  \/ StopStep("a", Ids) /\ UNCHANGED <<cfgVars, sendVars, keyVars>>
  \/ /\ \E i \in Ids \ AgentIds :
          \/ runAgentLoop("r1", i, 6, 1, FALSE)
          \/ runTradingAgent("r1", i, 1, FALSE)
          \/ runLiquidityAgent("r1", i, 1, FALSE)
     /\ UNCHANGED <<regVars, cfgVars, sendVars, keyVars>>
SpecLedger == InitLedger /\ [][NextLedger \/ NextLedgerRuns]_vars

\* the events: one caller and one run slot of a process whose event bus has
\* subscribers, any of which may throw
EventIterations == {1}
InitEvents ==
  /\ InitRegistry /\ InitLoops /\ InitKeyStore
  /\ allowedPrograms = {} /\ koraEnabled = FALSE /\ send = IdleSend /\ signing = IdleSign
  /\ throwingHandlers \in SUBSET Events
NextEvents ==
  /\ \/ (\E n \in ExplicitNames : createWallet(n)) /\ UNCHANGED loopVars
     \/ spawnAgent("a", None, None) /\ UNCHANGED loopVars
     \/ spawnRead("a") /\ UNCHANGED loopVars
     \/ spawnWrite("a") /\ UNCHANGED loopVars
     \/ (\E n \in ExplicitNames : promoteWallet("a", n, None)) /\ UNCHANGED loopVars
     \/ promoteLoad("a") /\ UNCHANGED loopVars
     \/ promoteWrite("a") /\ UNCHANGED loopVars
     \/ StopStep("a", AgentIds)
     \/ (\E i \in AgentIds, s \in LoopSols, n \in EventIterations :
           runAgentLoop("r1", i, s, n, FALSE)) /\ UNCHANGED regVars
     \/ runLoop("r1") /\ UNCHANGED regVars
     \/ getLatestBlockhash("r1", None) /\ UNCHANGED regVars
     \/ sendAndConfirmTransaction("r1", None) /\ UNCHANGED regVars
  /\ UNCHANGED <<cfgVars, sendVars, keyVars>>
SpecEvents == InitEvents /\ [][NextEvents]_vars

\* stopAgent next to the ledger: caller "a" tracks spending, caller "b" stops
\* the agent, a trading run may be in flight; the calls interleave at their
\* await points
StopSols == {5}
InitStop ==
  /\ InitSpawned({None}) /\ InitLoops /\ InitKeyStore
  /\ allowedPrograms = {} /\ koraEnabled = FALSE /\ send = IdleSend /\ signing = IdleSign
  /\ throwingHandlers = {}
NextStop ==
  /\ \/ Tick /\ UNCHANGED loopVars
     \/ (\E s \in StopSols : trackSpending("a", 1, s)) /\ UNCHANGED loopVars
     \/ updateAgent("a") /\ UNCHANGED loopVars
     \/ trackSpendingWrite("a") /\ UNCHANGED loopVars
     \/ StopStep("b", {1})
     \/ TradingStep("r1", {1}, LoopIterations, {FALSE})
  /\ UNCHANGED <<cfgVars, sendVars, keyVars>>
SpecStop == InitStop /\ [][NextStop]_vars

\* updateSplSnapshot next to the ledger and to stopAgent: caller "a" tracks
\* spending, caller "b" stops the agent or refreshes its balance snapshot
NextSnapshot ==
  /\ \/ \E i \in {1} : updateSplSnapshot("b", i)
     \/ \E res \in LedgerResults : snapshotBalances("b", res)
     \/ snapshotWrite("b")
  /\ UNCHANGED <<loopVars, cfgVars, sendVars, keyVars>>
SpecSnapshot == InitStop /\ [][NextStop \/ NextSnapshot]_vars

\* WalletService.signTransaction on every transaction a caller can hand over
NextSign ==
  \/ \E f \in FeePayers, b \in RecentBlockhashes, w \in PublicKeys :
       signTransaction([feePayer |-> f, recentBlockhash |-> b], w)
  \/ \E res \in FetchResults : signGetLatestBlockhash(res)
SpecSign == Init /\ [][NextSign]_vars

\* ================================================================== claims

\* one run at a time of any of the three loops, for 0, 1 or 3 iterations, with
\* stopAgent calls; every awaited call of a run in flight returns in the end
IterateIterations == {0, 1, 3}
NextIterate ==
  /\ \/ StopStep("b", {1})
     \/ SimpleStep("r1", {1}, IterateIterations, BOOLEAN, Results)
     \/ TradingStep("r1", {1}, IterateIterations, BOOLEAN)
     \/ LiquidityStep("r1", {1}, IterateIterations, BOOLEAN)
  /\ UNCHANGED <<cfgVars, sendVars, keyVars>>
awaitedCallReturns(r) ==
  /\ \/ runLoop(r)
     \/ sleepDone(r)
     \/ \E res \in Results : getLatestBlockhash(r, res)
     \/ \E res \in Results : sendAndConfirmTransaction(r, res)
     \/ \E res \in Results : getSplBalances(r, res)
     \/ \E res \in Results : splAction(r, res)
  /\ UNCHANGED <<regVars, cfgVars, sendVars, keyVars>>
SpecIterate == InitLoop /\ [][NextIterate]_vars /\ WF_vars(awaitedCallReturns("r1"))

\* the key store on its own: saves under one passphrase, loads under either,
\* listings, and single-bit changes made to the record files from outside
InitKeys == Init
NextKeys ==
  /\ \/ \E p \in SavePassphrases, n \in KeyNames, k \in Keypairs, i \in Bits, s \in Bits :
          saveKeypair(p, n, k, [len |-> IV_LENGTH, bits |-> i],
                      [len |-> SALT_LENGTH, bits |-> s])
     \/ mkdir
     \/ writeFile
     \/ \E p \in Passphrases, n \in KeyNames : loadKeypair(p, n)
     \/ readFile
     \/ listKeypairs
     \/ readdir
     \/ \E n \in KeyNames, f \in TamperedFields, part \in {"bits", "spare"} :
          tamper(n, f, part)
  /\ UNCHANGED <<regVars, loopVars, cfgVars, sendVars>>
SpecKeys == InitKeys /\ [][NextKeys]_vars


\* ------------------------------------------------------------------ C1
\* C1 as stated: whenever a trackSpending call on a registered agent has just
\* settled (resolved, or been rejected for the limit), that agent's record has
\* solSpent <= spendingLimit.
C1_SpentWithinLimitAfterEveryCall ==
  \A c \in Callers :
    (outcome[c].op = "trackSpending" /\ outcome[c].status \in {"ok", "LimitExceeded"})
      => getAgent(store, outcome[c].id).solSpent <= getAgent(store, outcome[c].id).spendingLimit

\* ------------------------------------------------------------------ C6
\* C6 as stated: a trackSpending call that resolves has added its amount to the
\* solSpent that was persisted when its write took effect (no update is lost).
C6_NoLostUpdate ==
  [][\A c \in Callers :
       trackSpendingWrite(c) =>
         getAgent(store', calls[c].id).solSpent
           = getAgent(store, calls[c].id).solSpent + calls[c].sol]_vars

\* ------------------------------------------------------------------ C2
\* the loop of run r has started (its runner is made and registered) and has
\* not returned or thrown
iterating(r) == runs[r].kind # "idle" /\ runs[r].pc # "loadWallet"

\* C2 as stated: the SOL an agent's loops have moved never exceeds the agent's
\* spendingLimit, and once a run has returned the agent's solSpent accounts
\* for what its loops have moved.
C2_LoopSpendingWithinLimit ==
  \A k \in 1..Len(store) :
    /\ submitted[store[k].id] <= store[k].spendingLimit
    /\ (\E r \in Runners : runOutcome[r].status = "ok" /\ runOutcome[r].id = store[k].id)
         => (submitted[store[k].id] < MaxSubmitted => store[k].solSpent = submitted[store[k].id])

\* ------------------------------------------------------------------ C3
\* C3 as stated: no two loops are iterating for the same agent id.
C3_AtMostOneLoopPerAgent ==
  \A r1, r2 \in Runners :
    (r1 # r2 /\ iterating(r1) /\ iterating(r2)) => runs[r1].id # runs[r2].id

\* ------------------------------------------------------------------ C4
\* C4 as stated: an id is in the Running-Agent Set exactly when a loop is
\* iterating for it.
C4_RunningIffIterating ==
  \A id \in AgentIds :
    (runningAgents[id] # NoRunner) <=> (\E r \in Runners : iterating(r) /\ runs[r].id = id)

\* ------------------------------------------------------------------ C5
\* C5 as stated: a run of 10 iterations with intervalMs = 0 that returns after
\* stop(id) was issued while its first iteration's action was in flight returns
\* fewer than 10 entries, and the id is then not in the Running-Agent Set.
C5_StopShortensTheRun ==
  \A r \in Runners :
    (runOutcome[r].status = "ok" /\ runOutcome[r].iterations = 10 /\ runOutcome[r].stopInFirst)
      => /\ Len(runOutcome[r].signatures) < 10
         /\ runningAgents[runOutcome[r].id] = NoRunner

\* ------------------------------------------------------------------ C7
\* C7 as stated: with a non-empty allowlist, every program of a transaction the
\* loops have sent to the network is in the allowlist.
C7_LoopsSendOnlyAllowlistedPrograms ==
  allowedPrograms # {} => sentPrograms \subseteq allowedPrograms

\* ------------------------------------------------------------------ C8
\* the transaction of the sendTransaction call violates the policy: the
\* allowlist is not empty and an instruction targets a program outside it
violatesPolicy ==
  allowedPrograms # {} /\ \E k \in 1..Len(send.tx) : send.tx[k] \notin allowedPrograms

\* C8: for a transaction that violates the policy, sendTransaction fails with
\* PolicyViolation and makes no simulation call and no submission call, through
\* the relay or directly.
C8_PolicyCheckedBeforeTheNetwork ==
  violatesPolicy =>
    /\ send.status = "PolicyViolation" /\ send.pc = "idle"
    /\ ~send.simulated /\ ~send.koraSent /\ ~send.rpcSent

\* C8 witness: a call was rejected for a transaction whose first instruction is
\* allowed and whose second is not
C8_Witness ==
  /\ send.status = "PolicyViolation" /\ Len(send.tx) = 2
  /\ send.tx[1] \in allowedPrograms /\ send.violator = send.tx[2]

\* ------------------------------------------------------------------ C9
\* C9: when the simulation that sendTransaction ran reported an error, the call
\* has failed with SimulationFailed and has submitted nothing, through the
\* relay or directly.
C9_SimulationErrorStopsSubmission ==
  send.simulationErr =>
    /\ send.status = "SimulationFailed" /\ send.pc = "idle"
    /\ ~send.koraSent /\ ~send.rpcSent /\ ~send.confirmed

\* C9 witness: a simulation error was reported with the relay enabled
C9_Witness ==
  send.simulationErr /\ send.status = "SimulationFailed" /\ koraEnabled /\ Len(send.tx) > 0

\* ------------------------------------------------------------------ C10
\* the error is of the staleness class
staleMessage(err) == err \in {{"block height exceeded"}, {"Blockhash not found"}}

\* run r's transferSol has failed in this step with err
transferSolFails(r, err) ==
  getLatestBlockhash(r, Some(err)) \/ sendAndConfirmTransaction(r, Some(err))

\* C10: a failure of a transferSol attempt that is not a staleness error is
\* thrown to the caller in the same step and ends the call; a failure is
\* followed by another attempt only if it is a staleness error.
C10_OnlyStalenessIsRetried ==
  [][\A r \in Runners, err \in Errors :
       transferSolFails(r, err) =>
         /\ ~staleMessage(err) =>
              /\ runOutcome'[r].status = "error" /\ runOutcome'[r].error = Some(err)
              /\ runs'[r] = IdleRun
         /\ runs'[r].pc = "getLatestBlockhash" =>
              /\ staleMessage(err)
              /\ runs'[r].attempt = runs[r].attempt + 1]_vars

\* C10 witness: a third attempt is under way after two staleness failures
C10_Witness ==
  /\ runs["r1"].pc = "sendAndConfirmTransaction" /\ runs["r1"].attempt = 2
  /\ runs["r1"].lastError = Some({"Blockhash not found"})

\* ------------------------------------------------------------------ C11
\* C11 as stated: once a keypair has been persisted under a wallet name, no
\* later create, spawn or promote replaces the keypair stored under that name.
C11_KeyMaterialNeverOverwritten ==
  [][\A n \in WalletNames : keys[n] # 0 => keys'[n] = keys[n]]_vars

\* ------------------------------------------------------------------ C12
\* C12 as stated: the registry holds at most one Agent Record per walletName.
C12_OneRecordPerWallet ==
  \A i, j \in 1..Len(store) : i # j => store[i].walletName # store[j].walletName

\* ------------------------------------------------------------------ C13
\* the number of records of the collection that reference the wallet
recordsOf(all, name) == Cardinality({i \in 1..Len(all) : all[i].walletName = name})

\* C13 as stated: a promoteWallet call on a walletName that already has an
\* Agent Record is rejected as a duplicate and leaves the registry unchanged,
\* with exactly one record for that wallet.
C13_DuplicatePromoteRejected ==
  [][\A c \in Callers, n \in ExplicitNames, l \in LimitChoices :
       (promoteWallet(c, n, l) /\ recordsOf(store, n) > 0) =>
         /\ outcome'[c].op = "promoteWallet" /\ outcome'[c].status = "Duplicate"
         /\ store' = store
         /\ recordsOf(store', n) = 1]_vars

\* ------------------------------------------------------------------ C14
\* C14 as stated: a failure of one iteration's action never aborts a run: no
\* run operation whose loop has started is rejected with the error of an
\* action, it goes on to the remaining iterations and returns.
C14_FailedIterationDoesNotAbortTheRun ==
  \A r \in Runners : runOutcome[r].status # "error"

\* ------------------------------------------------------------------ C15
\* C15 as stated: whatever the subscribed handlers do, no registry call and no
\* run operation is rejected with the error a handler threw.
C15_SubscriberFailureNeverSurfaces ==
  /\ \A c \in Callers : outcome[c].status # "HandlerError"
  /\ \A r \in Runners : runOutcome[r].status # "HandlerError"

\* ------------------------------------------------------------------ C16
\* C16 as stated: a trackSpending call rejected for the limit leaves the whole
\* persisted registry unchanged; a call that succeeds changes nothing in the
\* registry but the solSpent and lastUpdated of its own agent's record.
C16_TrackSpendingFrame ==
  [][\A c \in Callers :
       /\ (outcome'[c].op = "trackSpending" /\ outcome'[c].status = "LimitExceeded")
            => store' = store
       /\ trackSpendingWrite(c) =>
            /\ Len(store') = Len(store)
            /\ \A i \in 1..Len(store) :
                 IF store[i].id = calls[c].id
                 THEN [store'[i] EXCEPT !.solSpent = store[i].solSpent,
                                        !.lastUpdated = store[i].lastUpdated] = store[i]
                 ELSE store'[i] = store[i]]_vars

\* ------------------------------------------------------------------ C17
\* C17: a checkSpendingLimit call leaves the persisted registry, the key
\* store and the Running-Agent map as they were, whether it succeeds or
\* fails; on a registered agent it is rejected with LimitExceeded exactly when
\* solSpent + amount > spendingLimit, and otherwise succeeds.
C17_CheckSpendingLimitIsPure ==
  [][\A c \in Callers :
       outcome'[c].op = "checkSpendingLimit" =>
         /\ store' = store /\ keys' = keys /\ runningAgents' = runningAgents
         /\ calls' = calls
         /\ \A sol \in SolChoices :
              LET record == getAgent(store, outcome'[c].id) IN
                (checkSpendingLimit(c, outcome'[c].id, sol) /\ record.id # 0) =>
                  outcome'[c].status =
                    IF record.solSpent + sol > record.spendingLimit
                    THEN "LimitExceeded" ELSE "ok"]_vars

\* C17 witness: an agent that has spent half of the default limit is refused
\* an amount that is within the limit on its own
C17_Witness ==
  /\ outcome["a"].op = "checkSpendingLimit" /\ outcome["a"].status = "LimitExceeded"
  /\ LET record == getAgent(store, outcome["a"].id) IN
       record.solSpent = 5 /\ record.spendingLimit = DEFAULT_SPENDING_LIMIT

\* ------------------------------------------------------------------ C18
\* C18 as stated: on every registered agent, checkSpendingLimit(id, 0) succeeds.
C18_ZeroAmountAlwaysPasses ==
  [][\A c \in Callers, id \in Ids :
       (checkSpendingLimit(c, id, 0) /\ getAgent(store, id).id # 0)
         => outcome'[c].status = "ok"]_vars

\* ------------------------------------------------------------------ C19
\* C19 as stated: no step makes the persisted solSpent of an agent smaller
\* than it was.
C19_SolSpentNeverDecreases ==
  [][\A id \in AgentIds :
       (getAgent(store, id).id # 0 /\ getAgent(store', id).id # 0)
         => getAgent(store', id).solSpent >= getAgent(store, id).solSpent]_vars

\* ------------------------------------------------------------------ C20
\* the registry operations that take an agent id
IdOperations ==
  {"checkSpendingLimit", "trackSpending", "updateSplSnapshot", "stopAgent",
   "getAgentBalance", "fundAgent"}

\* C20 as stated: an operation called with an id that no record has is
\* rejected with a not-found error and changes neither the registry nor the
\* Running-Agent map.
C20_UnknownIdIsNotFound ==
  [][/\ \A c \in Callers :
          (outcome'[c].op \in IdOperations /\ getAgent(store, outcome'[c].id).id = 0)
            => /\ outcome'[c].status = "NotFound"
               /\ store' = store /\ runningAgents' = runningAgents
     /\ \A r \in Runners :
          (runOutcome'[r].status # "none" /\ getAgent(store, runOutcome'[r].id).id = 0)
            => /\ runOutcome'[r].status = "NotFound"
               /\ store' = store /\ runningAgents' = runningAgents]_vars

\* ------------------------------------------------------------------ C21
\* C21 as stated: a stopAgent call on a registered agent that returns has set
\* lastUpdated on the agent's record and changed no other field of any record,
\* and the id is then not in the Running-Agent map; a stopAgent call on an id
\* that is not in the map signals no runner.
C21_StopOnlyStampsTheRecord ==
  [][\A c \in Callers :
       /\ stopWrite(c) =>
            /\ Len(store') = Len(store)
            /\ \A i \in 1..Len(store) :
                 IF store[i].id = calls[c].id
                 THEN /\ [store'[i] EXCEPT !.lastUpdated = store[i].lastUpdated] = store[i]
                      /\ store'[i].lastUpdated = calls[c].record.lastUpdated
                 ELSE store'[i] = store[i]
            /\ runningAgents'[calls[c].id] = NoRunner
       /\ \A id \in Ids :
            (stopAgent(c, id) /\ runningAgents[id] = NoRunner) => runs' = runs]_vars

\* ------------------------------------------------------------------ C22
\* C22 as stated: a record that is in the persisted registry stays in it: no
\* step removes the record of an id from the registry.
C22_RecordsNeverDeleted ==
  [][\A id \in AgentIds :
       getAgent(store, id).id # 0 => getAgent(store', id).id # 0]_vars

\* ------------------------------------------------------------------ C23
\* a sendTransaction call has been made and its allowlist check has run
validated == send.pc # "idle" \/ send.status # "none"

\* C23: the allowlist check of a call succeeded exactly when the allowlist is
\* empty or every instruction's program is in it, and exactly when isAllowed
\* holds for every instruction's program.
C23_ValidateIffEveryProgramAllowed ==
  validated =>
    /\ send.status # "PolicyViolation" <=>
         (allowedPrograms = {} \/ \A k \in 1..Len(send.tx) : send.tx[k] \in allowedPrograms)
    /\ send.status # "PolicyViolation" <=>
         \A k \in 1..Len(send.tx) : isAllowed(allowedPrograms, send.tx[k])

\* C23 witness: with an empty allowlist a two-instruction transaction passed
\* the check and went on to submission
C23_Witness ==
  /\ allowedPrograms = {} /\ Len(send.tx) = 2 /\ send.tx[1] # send.tx[2]
  /\ send.pc = "sendRawTransaction"

\* ------------------------------------------------------------------ C24
\* C24: the program named by a PolicyViolation is the program of the
\* instruction with the smallest index that is outside the allowlist.
C24_ViolationNamesFirstDisallowed ==
  send.status = "PolicyViolation" =>
    \E k \in 1..Len(send.tx) :
      /\ send.violator = send.tx[k]
      /\ send.tx[k] \notin allowedPrograms
      /\ \A j \in 1..(k - 1) : send.tx[j] \in allowedPrograms

\* C24 witness: a transaction with two different disallowed programs was
\* rejected naming the first
C24_Witness ==
  /\ send.status = "PolicyViolation" /\ Len(send.tx) = 2
  /\ send.tx[1] \notin allowedPrograms /\ send.tx[2] \notin allowedPrograms
  /\ send.tx[1] # send.tx[2] /\ send.violator = send.tx[1]

\* ------------------------------------------------------------------ C25
\* C25: a call never submits through both channels; a call that returned the
\* signature submitted through the relay exactly when the relay is enabled
\* and directly otherwise, and its confirmation had arrived; while the
\* confirmation is awaited the call has not returned.
C25_OneChannelThenConfirmed ==
  /\ ~(send.koraSent /\ send.rpcSent)
  /\ send.pc = "confirmTransaction" => send.status = "none" /\ ~send.confirmed
  /\ send.status = "ok" =>
       /\ send.confirmed
       /\ IF koraEnabled THEN send.koraSent /\ ~send.rpcSent
                         ELSE send.rpcSent /\ ~send.koraSent

\* C25 witness: a call returned the signature with the relay enabled
C25_Witness ==
  send.status = "ok" /\ koraEnabled /\ send.koraSent /\ send.confirmed

\* ------------------------------------------------------------------ C26
\* a loadKeypair call has returned or thrown after reading a record file
loaded == custody.op = "loadKeypair" /\ custody.pc = "idle" /\ custody.read # NoFile

\* C26: decryptKeypair gives back the keypair from the record that
\* encryptKeypair made of it in a save, whatever the name, keypair, nonce and
\* salt; and a load that read the record as saveKeypair wrote it, under the
\* passphrase it was written with, returns a keypair with the same secret key
\* bytes and the same public key.
C26_LoadReturnsTheSavedKeypair ==
  /\ custody.op = "saveKeypair" =>
       decryptKeypair(custody.passphrase, custody.stored)
         = [status |-> "ok", keypair |-> custody.keypair]
  /\ (/\ loaded
      /\ custody.read = written[custody.name].stored
      /\ custody.passphrase = written[custody.name].passphrase) =>
       /\ custody.status = "ok"
       /\ custody.keypair.secretKey = written[custody.name].keypair.secretKey
       /\ custody.keypair.publicKey = written[custody.name].keypair.publicKey
       /\ custody.keypair.publicKey = custody.read.publicKey

\* C26 witness: a load returned the keypair of the record it read, which is
\* still the file's content
C26_Witness ==
  /\ loaded /\ custody.status = "ok"
  /\ custody.keypair = written[custody.name].keypair
  /\ custody.keypair.secretKey.bits = 1
  /\ keyFiles[filePath(custody.name)] = custody.read

\* ------------------------------------------------------------------ C27
\* the bytes some protected field of the record that was read decodes to
\* differ from the bytes saveKeypair wrote
bytesChanged ==
  \E f \in TamperedFields :
    fromBase64(custody.read[f]) # fromBase64(written[custody.name].stored[f])

\* the stored text of some protected field of the record that was read
\* differs from the text saveKeypair wrote
textChanged ==
  \E f \in TamperedFields : custody.read[f] # written[custody.name].stored[f]

C28_LoadAndListReadOnly ==
  [][/\ (custody' # custody /\ custody'.op \in {"loadKeypair", "listKeypairs"}) =>
          keyFiles' = keyFiles /\ keystoreDir' = keystoreDir
     /\ (custody.pc = "readdir" /\ custody'.pc = "idle") =>
          /\ custody'.status = "ok"
          /\ custody'.names = IF keystoreDir
                              THEN {n \in KeyNames : written[n] # NoWritten}
                              ELSE {}
     /\ (custody.pc = "mkdir" /\ custody'.pc = "writeFile") => keyFiles' = keyFiles
     /\ (custody.pc = "writeFile" /\ custody'.pc = "idle") =>
          /\ custody'.status = "ok"
          /\ keyFiles'[filePath(custody.name)] = custody.stored
          /\ \A f \in FilePaths : f # filePath(custody.name) => keyFiles'[f] = keyFiles[f]]_vars

\* C28 witness: a listing returned both names after two saves
C28_Witness ==
  /\ custody.op = "listKeypairs" /\ custody.pc = "idle" /\ custody.status = "ok"
  /\ custody.names = KeyNames

\* ------------------------------------------------------------------ C29
\* JavaScript's `x ?? d` written out: the supplied limit, or else the default
suppliedOrDefault(limit) == IF limit = None THEN DEFAULT_SPENDING_LIMIT ELSE limit[1]

\* C29: the record a spawn or promote builds and persists has solSpent 0 and
\* the supplied limit, or the default when none is supplied; a trackSpending
\* call on a registered agent goes on to its write and succeeds, adding the
\* amount to solSpent, exactly when solSpent + amount <= spendingLimit, and is
\* otherwise rejected with LimitExceeded with the registry left as it was.
C29_FreshRecordAndLimitRule ==
  [][\A c \in Callers :
       /\ (calls[c].op = "idle" /\ calls'[c].op = "spawnAgent") =>
            \A n \in NameChoices, l \in LimitChoices :
              spawnAgent(c, n, l) =>
                /\ calls'[c].record.solSpent = 0
                /\ calls'[c].record.spendingLimit = suppliedOrDefault(l)
       /\ (calls[c].op = "idle" /\ calls'[c].op = "promoteWallet") =>
            \A n \in ExplicitNames, l \in LimitChoices :
              promoteWallet(c, n, l) =>
                calls'[c].record.spendingLimit = suppliedOrDefault(l)
       /\ (promoteLoad(c) /\ calls'[c].pc = "writeAgents") =>
            /\ calls'[c].record.solSpent = 0
            /\ calls'[c].record.spendingLimit = calls[c].record.spendingLimit
       /\ (spawnWrite(c) \/ promoteWrite(c)) =>
            /\ outcome'[c].status = "ok"
            /\ getAgent(store', calls[c].id) = calls[c].record
            /\ calls[c].record.solSpent = 0
       /\ (calls[c].op = "idle" /\
           (calls'[c].op = "trackSpending" \/ outcome'[c].op = "trackSpending")) =>
            \A id \in AgentIds, sol \in SolChoices :
              LET record == getAgent(store, id) IN
              (trackSpending(c, id, sol) /\ record.id # 0) =>
                IF record.solSpent + sol <= record.spendingLimit
                THEN /\ outcome'[c] = NoOutcome
                     /\ calls'[c].pc = "updateAgent"
                     /\ calls'[c].record.solSpent = record.solSpent + sol
                ELSE /\ outcome'[c].status = "LimitExceeded"
                     /\ store' = store
       /\ (calls[c].op = "trackSpending" /\ updateAgent(c)) => outcome'[c] = NoOutcome
       /\ trackSpendingWrite(c) =>
            /\ outcome'[c].status = "ok"
            /\ getAgent(store', calls[c].id).solSpent =
                 getAgent(store, calls[c].id).solSpent + calls[c].sol]_vars

\* C29 witness: an agent with the default limit that has spent half of it is
\* refused a further 0.6 of the limit, and its solSpent is still half the limit
C29_Witness ==
  /\ outcome["a"].op = "trackSpending" /\ outcome["a"].status = "LimitExceeded"
  /\ LET record == getAgent(store, outcome["a"].id) IN
       /\ record.spendingLimit = DEFAULT_SPENDING_LIMIT
       /\ 2 * record.solSpent = record.spendingLimit

\* ------------------------------------------------------------------ C30
\* C30 as stated: when a run operation returns or fails, whatever the way it
\* ends (a NotFound rejection comes before any entry is added), the agent's id
\* is no longer in the Running-Agent map.
C30_EntryRemovedWhenTheLoopEnds ==
  [][\A r \in Runners :
       runOutcome'[r].status \notin {"none", "NotFound"}
         => runningAgents'[runOutcome'[r].id] = NoRunner]_vars

\* ------------------------------------------------------------------ C31
\* the signatures of run r after the step: those it returned, or those it holds
signaturesAfter(r) ==
  IF runOutcome'[r].status # "none" THEN runOutcome'[r].signatures ELSE runs'[r].signatures

\* the entries of a signature list are iteration indices below n, in
\* increasing order
inIterationOrder(signatures, n) ==
  /\ \A k \in 1..Len(signatures) : signatures[k] \in 0..(n - 1)
  /\ \A j, k \in 1..Len(signatures) : j < k => signatures[j] < signatures[k]

\* C31: a loop in flight is in an iteration below the configured count and
\* every run that starts ends, given that its awaited calls return; a step of
\* the loop adds a signature exactly when an action of the current iteration
\* has succeeded, and it is that iteration's; the list a run returns is in
\* iteration order and has at most `iterations` entries.
C31_LoopEndsWithinIterations ==
  /\ [](\A r \in Runners :
          /\ runs[r].pc \notin {"idle", "loadWallet"} =>
               /\ runs[r].i < runs[r].iterations
               /\ inIterationOrder(runs[r].signatures, runs[r].i + 1)
          /\ runOutcome[r].status = "ok" =>
               /\ inIterationOrder(runOutcome[r].signatures, runOutcome[r].iterations)
               /\ Len(runOutcome[r].signatures) <= runOutcome[r].iterations)
  /\ [][\A r \in Runners :
          (runs[r].pc \notin {"idle", "loadWallet"} /\ runs'[r] # runs[r]) =>
            IF sendAndConfirmTransaction(r, None) \/ splAction(r, None)
            THEN signaturesAfter(r) = Append(runs[r].signatures, runs[r].i)
            ELSE signaturesAfter(r) = runs[r].signatures]_vars
  /\ \A r \in {"r1"} : (runs[r].kind # "idle") ~> (runs[r].kind = "idle")

\* C31 witness: a run of 3 iterations returned the signatures of its first and
\* its third iteration
C31_Witness ==
  /\ runOutcome["r1"].status = "ok" /\ runOutcome["r1"].iterations = 3
  /\ runOutcome["r1"].signatures = <<0, 2>>

\* ------------------------------------------------------------------ C32
\* C32 as stated: a run that was in the action of its first iteration when
\* stopAgent was called for its agent stays in that iteration until it ends:
\* it starts no further iteration and no pacing suspension.
C32_NoIterationAfterStop ==
  [][\A r \in Runners :
       (runs[r].stopInFirst /\ runs'[r] # runs[r] /\ runs'[r].kind # "idle") =>
         runs'[r].i = runs[r].i /\ runs'[r].pc # "sleep"]_vars

\* ------------------------------------------------------------------ C33
\* C33 as stated: a transferSol whose blockhash fetch (the prepare step of the
\* attempt) has failed makes no further attempt; a sendTransaction that failed
\* its policy check or its simulation makes no submission.
C33_PrepareFailureNotRetried ==
  /\ [][\A r \in Runners :
          runs[r].pc = "getLatestBlockhash" =>
            ~(runs'[r].pc = "getLatestBlockhash" /\ runs'[r].attempt = runs[r].attempt + 1)]_vars
  /\ [](send.status \in {"PolicyViolation", "SimulationFailed"} =>
          ~send.koraSent /\ ~send.rpcSent)

\* ------------------------------------------------------------------ C34
\* C34: a promoteWallet whose walletName has no keypair file fails with
\* not-found at loadWallet, having written no record, emitted nothing and
\* created no keypair; one whose walletName has a keypair builds its record
\* with that keypair's public key as walletAddress, creates no keypair, and
\* writes the collection it read with that record appended.
C34_PromoteNeedsAnExistingKeypair ==
  [][\A c \in Callers :
       (calls[c].op = "promoteWallet" /\ calls'[c] # calls[c]) =>
         /\ keys' = keys /\ generated' = generated
         /\ calls[c].pc = "loadWallet" =>
              /\ store' = store
              /\ IF keys[calls[c].record.walletName] = 0
                 THEN /\ outcome'[c] = Rejected("promoteWallet", "NotFound", 0)
                      /\ calls'[c] = IdleCall
                 ELSE /\ outcome'[c] = NoOutcome
                      /\ calls'[c].pc = "writeAgents"
                      /\ calls'[c].record.walletAddress = keys[calls[c].record.walletName]
                      /\ calls'[c].all = Append(calls[c].all, calls'[c].record)
         /\ calls[c].pc = "writeAgents" =>
              /\ store' = calls[c].all
              /\ outcome'[c].status = emitThenReturn("agent_spawned")]_vars

\* C34 witness: a promoteWallet has just failed with not-found while the
\* registry holds records and no keypair exists under some explicit name
C34_Witness ==
  /\ outcome["a"] = Rejected("promoteWallet", "NotFound", 0)
  /\ store # <<>>
  /\ \E n \in ExplicitNames : keys[n] = 0 /\ generated[n] = 0

\* ------------------------------------------------------------------ C35
\* C35: a transferSol call is in one of its attempts 0..MaxAttempts-1; every
\* attempt submits only after its own blockhash fetch has returned; the first
\* submission that succeeds ends the call with one signature added and no
\* further attempt; a staleness failure of the last attempt is thrown to the
\* caller as the error of the call.
C35_AtMostThreeFreshAttempts ==
  /\ [](\A r \in Runners : runs[r].attempt \in 0..(MaxAttempts - 1))
  /\ [][\A r \in Runners :
          /\ (runs'[r].pc = "sendAndConfirmTransaction" /\ runs[r].pc # "sendAndConfirmTransaction") =>
               /\ runs[r].pc = "getLatestBlockhash"
               /\ runs'[r].attempt = runs[r].attempt
          /\ (runs'[r].attempt # runs[r].attempt /\ runs'[r].attempt # 0) =>
               /\ runs'[r].attempt = runs[r].attempt + 1
               /\ runs'[r].pc = "getLatestBlockhash"
               /\ runs'[r].i = runs[r].i
          /\ (runs[r].pc = "sendAndConfirmTransaction" /\ sendAndConfirmTransaction(r, None)) =>
               /\ signaturesAfter(r) = Append(runs[r].signatures, runs[r].i)
               /\ runs'[r].pc # "sendAndConfirmTransaction"
               /\ runs'[r].pc = "getLatestBlockhash" =>
                    runs'[r].attempt = 0 /\ runs'[r].i > runs[r].i
          /\ \A err \in Errors :
               (runs[r].attempt = MaxAttempts - 1 /\ transferSolFails(r, err)) =>
                 /\ runOutcome'[r].status = "error" /\ runOutcome'[r].error = Some(err)
                 /\ runs'[r] = IdleRun]_vars

\* C35 witness: the first transferSol of a run returned a signature and the
\* second has thrown the staleness error of its third attempt
C35_Witness ==
  /\ runOutcome["r1"].status = "error"
  /\ runOutcome["r1"].error = Some({"block height exceeded"})
  /\ runOutcome["r1"].signatures = <<0>>

\* ------------------------------------------------------------------ C36
\* agent_stopped has been emitted for the run in flight in slot r: the run
\* registered its runner when it started, and only stopAgent, which emits
\* agent_stopped in the same stretch, deletes the entry of a run in flight
stoppedEmitted(r) ==
  runs[r].pc \notin {"idle", "loadWallet"} /\ runningAgents[runs[r].id] # r

\* the step ends the run of slot r with the emit of agent_completed
completedEmitted(r) ==
  runs'[r].kind = "idle" /\ runOutcome'[r].status \in {"ok", "HandlerError"}

\* C36 as stated: when a run that has emitted agent_started ends, exactly one
\* of agent_stopped and agent_completed has been emitted for it.
C36_ExactlyOneTerminalEvent ==
  [][\A r \in Runners :
       (runs[r].pc \notin {"idle", "loadWallet"} /\ runs'[r].kind = "idle") =>
         /\ stoppedEmitted(r) \/ completedEmitted(r)
         /\ ~(stoppedEmitted(r) /\ completedEmitted(r))]_vars

\* ------------------------------------------------------------------ C37
\* C37 as stated: the write that ends an updateSplSnapshot or a stopAgent call
\* leaves every field of every stored record but lastUpdated (and the balance
\* snapshot) as it finds it; the solSpent a trackSpending has written stays.
C37_SnapshotAndStopKeepSolSpent ==
  [][\A c \in Callers :
       (/\ outcome'[c].op \in {"updateSplSnapshot", "stopAgent"}
        /\ outcome'[c].status = "ok"
        /\ calls[c].pc = "writeAgents") =>
         /\ Len(store') = Len(store)
         /\ \A i \in 1..Len(store) :
              /\ store'[i].solSpent = store[i].solSpent
              /\ [store'[i] EXCEPT !.lastUpdated = 0] = [store[i] EXCEPT !.lastUpdated = 0]]_vars

\* ------------------------------------------------------------------ C38
\* C38 as stated: the walletAddress of every stored record is the public key
\* of the keypair that is stored under the record's walletName.
C38_AddressIsTheStoredKeypairs ==
  \A i \in 1..Len(store) : store[i].walletAddress = keys[store[i].walletName]

\* ------------------------------------------------------------------ C39
\* C39: in a signTransaction call, a fee payer the transaction came with is
\* still its fee payer, and the signer's public key is the fee payer when it
\* came with none; a blockhash it came with is still its blockhash and no
\* blockhash was fetched, and one fetch was made when it came with none; a
\* transaction that came with both is signed before any suspension.
C39_SignKeepsWhatIsSet ==
  signing.wallet # Undefined =>
    /\ IF signing.given.feePayer \in PublicKeys
       THEN signing.feePayer = signing.given.feePayer
       ELSE signing.feePayer = signing.wallet
    /\ IF signing.given.recentBlockhash \in Blockhashes
       THEN /\ signing.recentBlockhash = signing.given.recentBlockhash
            /\ signing.fetches = 0
            /\ signing.pc = "idle" /\ signing.status = "ok"
            /\ signing.signatures = {signing.wallet}
       ELSE /\ signing.fetches = 1
            /\ signing.status = "ok" =>
                 /\ signing.recentBlockhash \in {"h2", "h3"}
                 /\ signing.signatures = {signing.wallet}

\* C39 witness: a transaction that came with the fee payer k1 and the
\* blockhash h1 was signed by the wallet k2 with no fetch
C39_Witness ==
  /\ signing.status = "ok" /\ signing.wallet = "k2" /\ signing.signatures = {"k2"}
  /\ signing.given = [feePayer |-> "k1", recentBlockhash |-> "h1"]
  /\ signing.feePayer = "k1" /\ signing.recentBlockhash = "h1" /\ signing.fetches = 0

====
